---- MODULE Spec2Model ----
(***************************************************************************)
(* Model of the KTMB scraper's notification pipeline:                      *)
(*   - utils/notification_cache.py  NotificationCache (key derivation,     *)
(*     should_send_notification, add_to_cache, cleanup_expired, load/save) *)
(*   - notifications/notifications.py  NotificationSender.send_notification *)
(*   - monitor.py  KTMBMonitor.run_continuous_monitoring / run_single_search*)
(*                                                                         *)
(* Python values are represented as follows.                               *)
(*   None / JSON null      the empty tuple <<>>                            *)
(*   date object           <<"date", d>>                                   *)
(*   datetime object       <<"datetime", t>>   (t counts hours)            *)
(*   x.isoformat()         <<"iso", kind, n>>  (a string, not the object)  *)
(*   train_number string   tuple of character codes, ordered as str        *)
(*   dict                  a function; d.get(k, dflt) is DictGet           *)
(*   md5(...).hexdigest()  <<"md5", s>>: the digest is taken to be         *)
(*                         collision-free on the strings that occur        *)
(***************************************************************************)
EXTENDS Integers, Sequences, FiniteSets, TLC

VARIABLES
    cache_data,     \* NotificationCache.cache_data (in-memory store)
    file,           \* contents of cache_file_path on disk
    now,            \* the wall clock read by datetime.now(), in hours
    lastCall,       \* the most recent call: operation, inputs, outcome
    recordedAt,     \* history: key -> clock reading of the last add_to_cache
    writeFailures,  \* number of writes of the file that have failed
    running,        \* KTMBMonitor.running
    mpc,            \* position of run_continuous_monitoring
    sleepLeft,      \* remaining one-second sleeps of the current wait
    shutdown_requested, \* hasattr(monitor, '_shutdown_requested')
    config,         \* NotificationConfig and the pinger handed to the loop
    search,         \* list of (result, settings) of the current iteration
    lastDispatch,   \* history: key -> clock reading of the last Telegram send
    pinger          \* a HealthCheckPinger, its threads and its caller

cacheVars == <<cache_data, file, now, lastCall, recordedAt, writeFailures>>
loopVars == <<running, mpc, sleepLeft, shutdown_requested, config,
              search, lastDispatch>>
monitorVars == <<running, mpc, sleepLeft, shutdown_requested, config,
                 search, lastDispatch, pinger>>
vars == <<cache_data, file, now, lastCall, recordedAt, writeFailures,
          running, mpc, sleepLeft, shutdown_requested, config,
          search, lastDispatch, pinger>>

----------------------------------------------------------------------------
(* Bounds of the model *)

MaxTime == 3        \* the clock runs over 0..MaxTime
ExpiryHours == 2    \* expiry_hours given to the constructor (scaled down)
MaxTrains == 2      \* trains per result in the key-derivation inputs
MaxWriteFailures == 1   \* failed writes of the cache file in one run

----------------------------------------------------------------------------
(* Python values *)

None == <<>>

DictGet(d, k, default) == IF k \in DOMAIN d THEN d[k] ELSE default

\* date.isoformat() / datetime.isoformat(): the string of the object
IsoFormat(x) == <<"iso", x[1], x[2]>>

\* datetime.fromisoformat(s) succeeds exactly on strings isoformat() produces
IsIsoDateTime(s) == Len(s) = 3 /\ s[1] = "iso" /\ s[2] = "datetime"
FromIsoFormat(s) == <<"datetime", s[3]>>

\* datetime.now()
DateTimeNow(t) == <<"datetime", t>>

\* now + timedelta(hours=h)
PlusHours(dt, h) == <<"datetime", dt[2] + h>>

\* a < b on datetimes
DateTimeLess(a, b) == a[2] < b[2]

\* str comparison a < b (lexicographic on character codes)
RECURSIVE StrLess(_, _)
StrLess(a, b) ==
    IF b = <<>> THEN FALSE
    ELSE IF a = <<>> THEN TRUE
    ELSE IF Head(a) < Head(b) THEN TRUE
    ELSE IF Head(b) < Head(a) THEN FALSE
    ELSE StrLess(Tail(a), Tail(b))

----------------------------------------------------------------------------
(* utils/config.py *)

SG_TO_JB == "SG_TO_JB"
JB_TO_SG == "JB_TO_SG"
Direction == {JB_TO_SG, SG_TO_JB}

----------------------------------------------------------------------------
(* Input domains *)

TrainNumbers == {<<7, 2>>, <<7, 4>>}          \* "72", "74"
DepartureTimes == {"18:00", "19:30"}
ArrivalTimes == {"18:05", "19:35"}
SeatCounts == {1, 2}
DateDays == {1, 2}

\* the train dicts the scraper builds (scraper/main.py:462-467)
Trains ==
    { [train_number |-> n, departure_time |-> d,
       arrival_time |-> (IF d = "18:00" THEN "18:05" ELSE "19:35"),
       available_seats |-> s] :
        n \in TrainNumbers, d \in DepartureTimes, s \in SeatCounts }

SeqsUpTo(S, n) == UNION { [1..k -> S] : k \in 0..n }

DateValues == { <<"date", d>> : d \in DateDays }

\* ScraperSettings: return_date is optional and never before depart_date
SearchSettings ==
    { s \in [depart_date : DateValues, direction : Direction,
             return_date : DateValues \cup {None}] :
        s.return_date # None => s.return_date[2] >= s.depart_date[2] }

\* results handed to the key derivation
KeyResults ==
    UNION { { [success |-> TRUE, available_trains |-> a, return_trains |-> r] :
                a \in [1..k -> Trains], r \in SeqsUpTo(Trains, MaxTrains - k) } :
            k \in 0..MaxTrains }

KeyInputs == KeyResults \X SearchSettings

\* inputs of the cache operations and of the monitor: one train at most,
\* a one-way search of one day
CacheTrains ==
    { t \in Trains : t.train_number = <<7, 2>> /\ t.departure_time = "18:00" }
CacheReturnTrains == { t \in CacheTrains : t.available_seats = 1 }

CacheSettings ==
    { s \in SearchSettings :
        /\ s.depart_date = <<"date", 1>>
        /\ s.direction = SG_TO_JB
        /\ s.return_date = None }

\* a result dict with success true or missing; success false comes with the
\* dict the scraper returns on an exception, which has no train lists
\* (scraper/main.py:129)
ResultDicts(a, r) ==
    { [success |-> TRUE, available_trains |-> a, return_trains |-> r],
      [available_trains |-> a, return_trains |-> r] }
    \cup (IF a = <<>> /\ r = <<>>
          THEN {[success |-> FALSE, error |-> "error"]} ELSE {})

CacheResults ==
    UNION { ResultDicts(a, r) : a \in SeqsUpTo(CacheTrains, 1),
                                r \in SeqsUpTo(CacheReturnTrains, 1) }

CacheInputs ==
    { in \in CacheResults \X CacheSettings :
        LET a == DictGet(in[1], "available_trains", <<>>)
            r == DictGet(in[1], "return_trains", <<>>)
        IN  /\ Len(a) + Len(r) <= 1
            /\ in[2].return_date = None => r = <<>> }

\* inputs of add_to_cache: the call never reads "success", so the results
\* that differ only in it record the same entry; one form of each is kept
AddInputs == { in \in CacheInputs : DictGet(in[1], "success", FALSE) }

----------------------------------------------------------------------------
(* NotificationCache: key derivation (notification_cache.py:34-128) *)

\* variant: both branches of the flip give the outbound direction
GetOppositeDirection_NoFlip(direction) ==
    IF direction = SG_TO_JB THEN SG_TO_JB ELSE JB_TO_SG

\* _get_opposite_direction
GetOppositeDirection(direction) ==
    IF direction = SG_TO_JB THEN JB_TO_SG ELSE SG_TO_JB

\* key=lambda t: t.get("train_number", "")
SortKey(train) == DictGet(train, "train_number", <<>>)

\* sorted(trains, key=...): stable, compares keys with < only
RECURSIVE InsertByKey(_, _)
InsertByKey(x, s) ==
    IF s = <<>> THEN <<x>>
    ELSE IF StrLess(SortKey(x), SortKey(Head(s))) THEN <<x>> \o s
    ELSE <<Head(s)>> \o InsertByKey(x, Tail(s))

RECURSIVE SortedByTrainNumber(_)
SortedByTrainNumber(s) ==
    IF s = <<>> THEN <<>>
    ELSE InsertByKey(s[Len(s)], SortedByTrainNumber(SubSeq(s, 1, Len(s) - 1)))

\* variant: the seat count is left out of the signature
TrainSignature_NoSeats(train, direction) ==
    [train_number |-> DictGet(train, "train_number", None),
     departure_time |-> DictGet(train, "departure_time", None),
     available_seats |-> 0,
     direction |-> direction]

\* variant: departure_time is read from the arrival_time field
TrainSignature_ReadsArrival(train, direction) ==
    [train_number |-> DictGet(train, "train_number", None),
     departure_time |-> DictGet(train, "arrival_time", None),
     available_seats |-> DictGet(train, "available_seats", 0),
     direction |-> direction]

\* the dict appended to train_signatures / trains_data for one train
TrainSignature(train, direction) ==
    [train_number |-> DictGet(train, "train_number", None),
     departure_time |-> DictGet(train, "departure_time", None),
     available_seats |-> DictGet(train, "available_seats", 0),
     direction |-> direction]

SignaturesOf(trains, direction) ==
    [i \in 1..Len(trains) |-> TrainSignature(trains[i], direction)]

\* return_direction = opposite(direction).value if return_trains else None
ReturnDirection(result, search_settings) ==
    IF DictGet(result, "return_trains", <<>>) # <<>>
    THEN GetOppositeDirection(search_settings.direction)
    ELSE None

\* the key_data dict built by _generate_cache_key
KeyData(result, search_settings) ==
    LET available_trains == DictGet(result, "available_trains", <<>>)
        return_trains == DictGet(result, "return_trains", <<>>)
        outbound_direction == search_settings.direction
        return_direction == ReturnDirection(result, search_settings)
        outbound == SignaturesOf(SortedByTrainNumber(available_trains),
                                 outbound_direction)
        inbound == IF return_trains # <<>>
                   THEN SignaturesOf(SortedByTrainNumber(return_trains),
                                     return_direction)
                   ELSE <<>>
        return_date == IF return_trains # <<>>
                       THEN IF search_settings.return_date # None
                            THEN IsoFormat(search_settings.return_date)
                            ELSE None
                       ELSE None
    IN  [date |-> IsoFormat(search_settings.depart_date),
         direction |-> search_settings.direction,
         return_date |-> return_date,
         trains |-> outbound \o inbound]

\* json.dumps(train_signature, sort_keys=True): members in key order
JsonDumpsSignature(sig) ==
    << <<"available_seats", sig.available_seats>>,
       <<"departure_time", sig.departure_time>>,
       <<"direction", sig.direction>>,
       <<"train_number", sig.train_number>> >>

\* json.dumps(key_data, sort_keys=True)
JsonDumps(key_data) ==
    << <<"date", key_data.date>>,
       <<"direction", key_data.direction>>,
       <<"return_date", key_data.return_date>>,
       <<"trains", [i \in 1..Len(key_data.trains) |->
                        JsonDumpsSignature(key_data.trains[i])]>> >>

\* hashlib.md5(key_string).hexdigest()
Md5(key_string) == <<"md5", key_string>>

\* _generate_cache_key
GenerateCacheKey(result, search_settings) ==
    Md5(JsonDumps(KeyData(result, search_settings)))

----------------------------------------------------------------------------
(* NotificationCache: load and save (notification_cache.py:22-67) *)

EmptyStore == [cache_version |-> "1.0", entries |-> <<>>]

FileMissing == [kind |-> "missing"]
FileInvalid == [kind |-> "invalid"]         \* not parseable as JSON
FileUnreadable == [kind |-> "unreadable"]   \* open(..., 'r') is refused
FileJson(data) == [kind |-> "json", data |-> data]
\* valid JSON that is no object (a list, a string, a number, null)
FileJsonOther == [kind |-> "json_other"]

\* variant: the file is never read, every process starts empty
LoadCache_Fresh(f) == EmptyStore

\* _load_cache: an object is returned as json.load gave it; anything else
\* fails in data.get(...) at line 48 and ends in the except clause
LoadCache(f) ==
    IF f.kind = "json" THEN f.data ELSE EmptyStore

\* self.cache_data["entries"] can be evaluated
HasEntries(store) == "entries" \in DOMAIN store

\* variant: the except clause catches only a missing file
LoadRaises_Narrow(f) == f.kind \in {"invalid", "unreadable"}

\* _load_cache lets an exception out: never, "except Exception" returns the
\* empty store
LoadRaises(f) == FALSE

\* variant: a missing file is created by the load
FileAfterLoad_Creates(f) ==
    IF f.kind = "missing" THEN FileJson(EmptyStore) ELSE f

\* the file after _load_cache: it is opened for reading only
FileAfterLoad(f) == f

\* the call made by __init__, as recorded in lastCall; again tells that the
\* call before it was a construction too
Constructed(f, again) ==
    [op |-> "__init__", raised |-> LoadRaises(f), again |-> again]

\* outcome of the write in _save_cache: the dump succeeds, the file cannot
\* be opened (left as it was), or the dump fails after open(..., 'w')
\* truncated the file
WriteOutcomes == {"ok", "denied", "partial"}

\* variant: the dump is left out
SaveCache_Skips(f, store, outcome) == f

\* _save_cache: the file after an attempt to write store
SaveCache(f, store, outcome) ==
    IF outcome = "ok" THEN FileJson(store)
    ELSE IF outcome = "denied" THEN f
    ELSE FileInvalid

\* variant: the exception of a failed write reaches the caller
SaveRaises_Propagates(outcome) == outcome # "ok"

\* _save_cache lets an exception out: never, it is logged
SaveRaises(outcome) == FALSE

DictPut(d, k, v) == [x \in DOMAIN d \cup {k} |-> IF x = k THEN v ELSE d[x]]
DictDel(d, k) == [x \in DOMAIN d \ {k} |-> d[x]]

\* variant: the store keeps the latest entry only
StoreWithEntry_Single(store, cache_key, entry) ==
    [store EXCEPT !.entries = [x \in {cache_key} |-> entry]]

\* self.cache_data["entries"][cache_key] = entry
StoreWithEntry(store, cache_key, entry) ==
    [store EXCEPT !.entries = DictPut(@, cache_key, entry)]

----------------------------------------------------------------------------
(* NotificationCache.should_send_notification (notification_cache.py:130-169) *)

\* variant: result.get("success", True)
SearchFailed_DefaultTrue(result) == ~ DictGet(result, "success", TRUE)

\* not result.get("success", False)
SearchFailed(result) == ~ DictGet(result, "success", FALSE)

\* variant: the second "not" is missing
NoTrains_DroppedNot(result) ==
    /\ DictGet(result, "available_trains", <<>>) = <<>>
    /\ DictGet(result, "return_trains", <<>>) # <<>>

\* not available_trains and not return_trains
NoTrains(result) ==
    /\ DictGet(result, "available_trains", <<>>) = <<>>
    /\ DictGet(result, "return_trains", <<>>) = <<>>

\* entry["expires_at"] can be read and parsed by datetime.fromisoformat
ExpiryReadable(entry) ==
    /\ "expires_at" \in DOMAIN entry
    /\ IsIsoDateTime(entry.expires_at)

\* variant: datetime.now() <= expires_at
EntryLive_Inclusive(t, entry) ==
    ~ DateTimeLess(FromIsoFormat(entry.expires_at), DateTimeNow(t))

\* datetime.now() < expires_at
EntryLive(t, entry) ==
    DateTimeLess(DateTimeNow(t), FromIsoFormat(entry.expires_at))

\* the call reaches the store lookup
LooksUp(result) == ~ SearchFailed(result) /\ ~ NoTrains(result)

\* the call ends in an exception (KeyError from line 156, KeyError /
\* ValueError from line 158)
ShouldSendRaises(store, result, search_settings, t) ==
    /\ LooksUp(result)
    /\ \/ ~ HasEntries(store)
       \/ LET cache_key == GenerateCacheKey(result, search_settings)
          IN  /\ cache_key \in DOMAIN store.entries
              /\ ~ ExpiryReadable(store.entries[cache_key])

\* the value returned
ShouldSendReturn(store, result, search_settings, t) ==
    IF SearchFailed(result) THEN TRUE
    ELSE IF NoTrains(result) THEN FALSE
    ELSE LET cache_key == GenerateCacheKey(result, search_settings)
         IN  IF cache_key \in DOMAIN store.entries
             THEN ~ EntryLive(t, store.entries[cache_key])
             ELSE TRUE

\* variant: decide and record in one call - a miss marks the key as sent
ShouldSendStore_Marks(store, result, search_settings, t) ==
    IF SearchFailed(result) \/ NoTrains(result) THEN store
    ELSE LET cache_key == GenerateCacheKey(result, search_settings)
         IN  IF /\ cache_key \in DOMAIN store.entries
                /\ EntryLive(t, store.entries[cache_key])
             THEN store
             ELSE [store EXCEPT !.entries = DictPut(@, cache_key,
                      [expires_at |->
                          IsoFormat(PlusHours(DateTimeNow(t), ExpiryHours))])]

\* variant: an expired hit sweeps every expired entry out of the store
ShouldSendStore_Sweeps(store, result, search_settings, t) ==
    IF ~ LooksUp(result) THEN store
    ELSE LET cache_key == GenerateCacheKey(result, search_settings)
         IN  IF /\ cache_key \in DOMAIN store.entries
                /\ ~ EntryLive(t, store.entries[cache_key])
             THEN [store EXCEPT !.entries =
                      [k \in { x \in DOMAIN @ :
                                  \/ ~ ExpiryReadable(@[x])
                                  \/ EntryLive(t, @[x]) } |-> @[k]]]
             ELSE store

\* cache_data after the call
ShouldSendStore(store, result, search_settings, t) ==
    IF ~ LooksUp(result) THEN store
    ELSE LET cache_key == GenerateCacheKey(result, search_settings)
         IN  IF /\ cache_key \in DOMAIN store.entries
                /\ ~ EntryLive(t, store.entries[cache_key])
             THEN [store EXCEPT !.entries = DictDel(@, cache_key)]
             ELSE store

ShouldSendNotification(result, search_settings) ==
    /\ IF ShouldSendRaises(cache_data, result, search_settings, now)
       THEN /\ cache_data' = cache_data
            /\ lastCall' = [op |-> "should_send_notification",
                            result |-> result, settings |-> search_settings,
                            raised |-> TRUE, returned |-> FALSE,
                            writes |-> 0]
       ELSE /\ cache_data' =
                   ShouldSendStore(cache_data, result, search_settings, now)
            /\ lastCall' = [op |-> "should_send_notification",
                            result |-> result, settings |-> search_settings,
                            raised |-> FALSE,
                            returned |-> ShouldSendReturn(cache_data, result,
                                                search_settings, now),
                            writes |-> 0]
    /\ UNCHANGED <<file, now, recordedAt, writeFailures, monitorVars>>

----------------------------------------------------------------------------
(* NotificationCache.add_to_cache (notification_cache.py:171-220) *)

\* trains_data: outbound then return trains, in the order received
TrainsData(result, search_settings) ==
    SignaturesOf(DictGet(result, "available_trains", <<>>),
                 search_settings.direction)
    \o SignaturesOf(DictGet(result, "return_trains", <<>>),
                    ReturnDirection(result, search_settings))

\* variant: expires_at is the reading itself, the timedelta is left out
NewEntry_NoTtl(result, search_settings, t) ==
    [date |-> IsoFormat(search_settings.depart_date),
     direction |-> search_settings.direction,
     return_date |-> IF search_settings.return_date # None
                     THEN IsoFormat(search_settings.return_date)
                     ELSE None,
     trains |-> TrainsData(result, search_settings),
     notified_at |-> IsoFormat(DateTimeNow(t)),
     expires_at |-> IsoFormat(DateTimeNow(t))]

\* the dict stored under cache_key
NewEntry(result, search_settings, t) ==
    [date |-> IsoFormat(search_settings.depart_date),
     direction |-> search_settings.direction,
     return_date |-> IF search_settings.return_date # None
                     THEN IsoFormat(search_settings.return_date)
                     ELSE None,
     trains |-> TrainsData(result, search_settings),
     notified_at |-> IsoFormat(DateTimeNow(t)),
     expires_at |-> IsoFormat(PlusHours(DateTimeNow(t), ExpiryHours))]

AddToCache(result, search_settings, outcome) ==
    LET cache_key == GenerateCacheKey(result, search_settings)
    IN  /\ outcome # "ok" => writeFailures < MaxWriteFailures
        /\ IF HasEntries(cache_data)
           THEN /\ writeFailures' =
                       writeFailures + (IF outcome = "ok" THEN 0 ELSE 1)
                /\ cache_data' = StoreWithEntry(cache_data, cache_key,
                                       NewEntry(result, search_settings, now))
                /\ file' = SaveCache(file, cache_data', outcome)
                /\ recordedAt' = DictPut(recordedAt, cache_key, now)
                /\ lastCall' = [op |-> "add_to_cache",
                                result |-> result,
                                settings |-> search_settings,
                                raised |-> SaveRaises(outcome),
                                returned |-> None,
                                writes |-> 1]
           ELSE \* KeyError at line 210, before the save
                /\ outcome = "ok"
                /\ UNCHANGED <<cache_data, file, recordedAt, writeFailures>>
                /\ lastCall' = [op |-> "add_to_cache",
                                result |-> result,
                                settings |-> search_settings,
                                raised |-> TRUE,
                                returned |-> None,
                                writes |-> 0]
        /\ UNCHANGED <<now, monitorVars>>

----------------------------------------------------------------------------
(* NotificationCache.cleanup_expired (notification_cache.py:222-244) *)

\* variant: now > expires_at
EntryExpired_Strict(t, entry) ==
    IF ExpiryReadable(entry)
    THEN DateTimeLess(FromIsoFormat(entry.expires_at), DateTimeNow(t))
    ELSE TRUE

\* the entry is put on expired_keys
EntryExpired(t, entry) ==
    IF ExpiryReadable(entry)
    THEN ~ DateTimeLess(DateTimeNow(t), FromIsoFormat(entry.expires_at))
    ELSE TRUE

ExpiredKeys(store, t) ==
    { k \in DOMAIN store.entries : EntryExpired(t, store.entries[k]) }

\* variant: the store is saved on every call
CleanupWrites_Always(expired_keys) == 1

\* calls of _save_cache made by cleanup_expired: "if expired_keys:"
CleanupWrites(expired_keys) == IF expired_keys # {} THEN 1 ELSE 0

CleanupExpired(outcome) ==
    LET expired_keys ==
            IF HasEntries(cache_data) THEN ExpiredKeys(cache_data, now) ELSE {}
    IN  /\ IF HasEntries(cache_data)
           THEN cache_data' = [cache_data EXCEPT !.entries =
                    [k \in DOMAIN @ \ expired_keys |-> @[k]]]
           ELSE cache_data' = cache_data
        /\ IF ~ HasEntries(cache_data)
           THEN \* KeyError at line 225
                /\ outcome = "ok"
                /\ UNCHANGED <<file, writeFailures>>
                /\ lastCall' = [op |-> "cleanup_expired",
                                raised |-> TRUE,
                                returned |-> None,
                                removed |-> 0,
                                writes |-> 0]
           ELSE IF CleanupWrites(expired_keys) > 0
           THEN /\ outcome # "ok" => writeFailures < MaxWriteFailures
                /\ writeFailures' =
                       writeFailures + (IF outcome = "ok" THEN 0 ELSE 1)
                /\ file' = SaveCache(file, cache_data', outcome)
                /\ lastCall' = [op |-> "cleanup_expired",
                                raised |-> SaveRaises(outcome),
                                returned |-> None,
                                removed |-> Cardinality(expired_keys),
                                writes |-> CleanupWrites(expired_keys)]
           ELSE /\ outcome = "ok"
                /\ UNCHANGED <<file, writeFailures>>
                /\ lastCall' = [op |-> "cleanup_expired",
                                raised |-> FALSE,
                                returned |-> None,
                                removed |-> Cardinality(expired_keys),
                                writes |-> 0]
        /\ UNCHANGED <<now, recordedAt, monitorVars>>

----------------------------------------------------------------------------
(* NotificationSender (notifications/notifications.py:65-89, 222-264) *)

MinSeatsThreshold == 1      \* NOTIFICATION_MIN_SEATS default

\* any(train.get("available_seats", 0) >= min_seats_threshold for train in ..)
AnyAvailable(trains) ==
    \E i \in 1..Len(trains) :
        DictGet(trains[i], "available_seats", 0) >= MinSeatsThreshold

\* NotificationSender.should_send_notification
SenderShouldSend(cfg, result) ==
    IF ~ DictGet(result, "success", FALSE) THEN FALSE
    ELSE IF cfg.only_notify_on_availability
         THEN \/ AnyAvailable(DictGet(result, "available_trains", <<>>))
              \/ AnyAvailable(DictGet(result, "return_trains", <<>>))
         ELSE TRUE

\* send_notification reaches requests.post of send_telegram_notification
AttemptsTelegram(cfg, result) ==
    SenderShouldSend(cfg, result) /\ cfg.telegram_enabled

----------------------------------------------------------------------------
(* KTMBMonitor (monitor.py:37-56, 180-270, 330-398) *)

IntervalSleeps == 1     \* interval_minutes * 60 one-second sleeps (scaled)
RetrySleeps == 1        \* the 300 one-second sleeps of the retry wait (scaled)
MaxThreads == 2         \* threads one pinger spawns over its life
MaxPings == 2           \* requests one ping loop sends

\* the clock after time.sleep(1): the hour may or may not have turned
ClockAfterSleep(t) == IF t < MaxTime THEN {t, t + 1} ELSE {t}

MonitorWhile_Ignores ==
    /\ mpc = "while"
    /\ mpc' = "ping"
    /\ UNCHANGED <<cacheVars, pinger, running, sleepLeft, shutdown_requested,
                   config, search, lastDispatch>>

\* while self.running
MonitorWhile ==
    /\ mpc = "while"
    /\ mpc' = IF running THEN "ping" ELSE "stopped"
    /\ UNCHANGED <<cacheVars, pinger, running, sleepLeft, shutdown_requested, config,
                   search, lastDispatch>>

\* lines 347-351: HealthCheckPinger has no method ping, so the call raises
\* AttributeError when a pinger was handed in
MonitorPing ==
    /\ mpc = "ping"
    /\ mpc' = IF config.pinger THEN "except" ELSE "search"
    /\ UNCHANGED <<cacheVars, pinger, running, sleepLeft, shutdown_requested, config,
                   search, lastDispatch>>

\* run_single_search up to the results of the scrape: one (result, settings)
\* for a date or round-trip search, any number (here none) for weekends
MonitorSearch ==
    /\ mpc = "search"
    /\ \E found \in {<<>>} \cup { <<in>> : in \in CacheInputs } :
           search' = found
    /\ mpc' = "send"
    /\ UNCHANGED <<cacheVars, pinger, running, sleepLeft, shutdown_requested, config,
                   lastDispatch>>

\* send_notification for the next result: the Telegram post when required,
\* then the call of send_healthchecks_ping(url, success=...) at line 263,
\* which raises TypeError (the method takes url only)
MonitorSend ==
    /\ mpc = "send"
    /\ IF search = <<>>
       THEN /\ mpc' = "sent"
            /\ UNCHANGED <<search, lastDispatch>>
       ELSE LET result == Head(search)[1]
                search_settings == Head(search)[2]
            IN  /\ \E delivered \in BOOLEAN :
                       lastDispatch' =
                           IF AttemptsTelegram(config, result) /\ delivered
                           THEN DictPut(lastDispatch,
                                   GenerateCacheKey(result, search_settings),
                                   now)
                           ELSE lastDispatch
                /\ search' = Tail(search)
                /\ mpc' = "except"
    /\ UNCHANGED <<cacheVars, pinger, running, sleepLeft, shutdown_requested, config>>

\* lines 355-363: if not self.running: break
MonitorAfterSearch ==
    /\ mpc = "sent"
    /\ IF running
       THEN mpc' = "wait" /\ sleepLeft' = IntervalSleeps
       ELSE mpc' = "stopped" /\ sleepLeft' = sleepLeft
    /\ UNCHANGED <<cacheVars, pinger, running, shutdown_requested, config, search,
                   lastDispatch>>

\* except Exception (lines 376-396) up to the retry wait: ping_fail does not
\* exist either, so with a pinger the handler itself raises
MonitorExcept ==
    /\ mpc = "except"
    /\ IF config.pinger
       THEN mpc' = "crashed" /\ sleepLeft' = sleepLeft
       ELSE mpc' = "retry_wait" /\ sleepLeft' = RetrySleeps
    /\ UNCHANGED <<cacheVars, pinger, running, shutdown_requested, config, search,
                   lastDispatch>>

\* one round of either sleep loop: leave when the count is used up or
\* running is false, else time.sleep(1)
MonitorSleep ==
    /\ mpc \in {"wait", "retry_wait"}
    /\ IF sleepLeft = 0 \/ ~ running
       THEN /\ mpc' = "while"
            /\ sleepLeft' = 0
            /\ now' = now
       ELSE /\ mpc' = mpc
            /\ sleepLeft' = sleepLeft - 1
            /\ now' \in ClockAfterSleep(now)
    /\ UNCHANGED <<cache_data, file, lastCall, recordedAt, writeFailures,
                   running, shutdown_requested, config, search, lastDispatch,
                   pinger>>

\* _signal_handler, run between two steps of the loop
SignalHandler ==
    /\ mpc \notin {"stopped", "crashed", "exited"}
    /\ running' = FALSE
    /\ IF shutdown_requested
       THEN mpc' = "exited" /\ shutdown_requested' = shutdown_requested
       ELSE mpc' = mpc /\ shutdown_requested' = TRUE
    /\ UNCHANGED <<cacheVars, pinger, sleepLeft, config, search, lastDispatch>>

----------------------------------------------------------------------------
(* HealthCheckPinger (notifications/healthchecks.py) *)

\* the URLs a pinger is constructed with: HEALTHCHECKS_IO_URL unset, or set
Urls == {"", "u"}

\* what start() and stop() hand back, and what they did
PingerCall(op, returned, was_running, sent, ping_ok) ==
    [op |-> op, returned |-> returned, was_running |-> was_running,
     sent |-> sent, ping_ok |-> ping_ok]

\* HealthCheckPinger.__init__; threads holds every thread start() has
\* spawned, _thread is the index of self._thread (0 for None)
NewPinger(url) ==
    [url |-> url, _running |-> FALSE, _stop_event |-> FALSE, _thread |-> 0,
     threads |-> <<>>, caller |-> "idle",
     call |-> PingerCall("__init__", "None", FALSE, 0, FALSE)]

\* a thread at the top of _ping_loop
NewThread == [pc |-> "test", pings |-> 0, last |-> "none"]

is_running(p) == p._running

\* the threads whose _ping_loop has not returned
AliveThreads(p) == { i \in DOMAIN p.threads : p.threads[i].pc # "done" }

StartRefused_UrlOnly(p) == p.url = ""

\* the two early returns of start()
StartRefused(p) == p._running \/ p.url = ""

\* start() up to the initial ping: refused, or the request is under way
PingerStart ==
    /\ pinger.caller = "idle"
    /\ IF StartRefused(pinger)
       THEN pinger' = [pinger EXCEPT
                !.call = PingerCall("start", "False", pinger._running, 0,
                                    FALSE)]
       ELSE /\ Len(pinger.threads) < MaxThreads
            /\ pinger' = [pinger EXCEPT !.caller = "start"]
    /\ UNCHANGED <<cacheVars, loopVars>>

\* start() from the outcome of the initial ping to return True
PingerSpawn(ok) ==
    /\ pinger.caller = "start"
    /\ pinger' = [pinger EXCEPT
            !._stop_event = FALSE,
            !.threads = Append(pinger.threads, NewThread),
            !._thread = Len(pinger.threads) + 1,
            !._running = TRUE,
            !.caller = "idle",
            !.call = PingerCall("start", "True", pinger._running, 1, ok)]
    /\ UNCHANGED <<cacheVars, loopVars>>

\* self._thread and self._thread.is_alive()
ThreadAlive(p) == p._thread # 0 /\ p.threads[p._thread].pc # "done"

\* stop() up to the join
PingerStop ==
    /\ pinger.caller = "idle"
    /\ IF ~ pinger._running
       THEN pinger' = [pinger EXCEPT
                !.call = PingerCall("stop", "None", FALSE, 0, FALSE)]
       ELSE IF ThreadAlive(pinger)
       THEN pinger' = [pinger EXCEPT !._stop_event = TRUE,
                                     !.caller = "join"]
       ELSE pinger' = [pinger EXCEPT
                !._stop_event = TRUE,
                !._running = FALSE,
                !.call = PingerCall("stop", "None", TRUE, 0, FALSE)]
    /\ UNCHANGED <<cacheVars, loopVars>>

\* join(timeout=5) returns: the thread has ended, or five seconds have
\* passed while it is inside a request (which has a timeout of ten)
JoinReturns(t) == t.pc \in {"done", "ping"}

\* stop() from the return of the join
PingerJoin ==
    /\ pinger.caller = "join"
    /\ JoinReturns(pinger.threads[pinger._thread])
    /\ pinger' = [pinger EXCEPT
            !._running = FALSE,
            !.caller = "idle",
            !.call = PingerCall("stop", "None", TRUE, 0, FALSE)]
    /\ UNCHANGED <<cacheVars, loopVars>>

\* while not self._stop_event.is_set()
PcAfterTest(set) == IF set THEN "done" ELSE "wait"

PcAfterWait_Ignores(set) == "ping"

\* if self._stop_event.wait(self.ping_interval_sec): break
PcAfterWait(set) == IF set THEN "done" ELSE "ping"

PcAfterPing_Fatal(ok) == IF ok THEN "test" ELSE "done"

\* send_healthchecks_ping returns False on a failure, the handler of
\* _ping_loop continues: both lead back to the test of the loop
PcAfterPing(ok) == "test"

LoopTest(i) ==
    /\ pinger.threads[i].pc = "test"
    /\ pinger' = [pinger EXCEPT
            !.threads[i].pc = PcAfterTest(pinger._stop_event)]
    /\ UNCHANGED <<cacheVars, loopVars>>

\* the wait ends: the event is set, or the interval has passed
LoopWait(i) ==
    /\ pinger.threads[i].pc = "wait"
    /\ pinger._stop_event \/ pinger.threads[i].pings < MaxPings
    /\ pinger' = [pinger EXCEPT
            !.threads[i].pc = PcAfterWait(pinger._stop_event)]
    /\ UNCHANGED <<cacheVars, loopVars>>

\* the request of the loop ends, well or not
LoopPing(i, ok) ==
    /\ pinger.threads[i].pc = "ping"
    /\ pinger' = [pinger EXCEPT
            !.threads[i].pc = PcAfterPing(ok),
            !.threads[i].pings = @ + 1,
            !.threads[i].last = IF ok THEN "ok" ELSE "fail"]
    /\ UNCHANGED <<cacheVars, loopVars>>

----------------------------------------------------------------------------
(* Specifications *)

\* the clock moves on between two calls
Tick ==
    /\ now < MaxTime
    /\ now' = now + 1
    /\ UNCHANGED <<cache_data, file, lastCall, recordedAt, writeFailures,
                   monitorVars>>

\* NotificationCache.__init__ on a missing or unparseable file
CacheInit ==
    /\ file \in {FileMissing, FileInvalid}
    /\ cache_data = LoadCache(file)
    /\ now = 0
    /\ recordedAt = <<>>
    /\ writeFailures = 0

\* no monitor loop is running
MonitorIdle ==
    /\ running = TRUE
    /\ mpc = "idle"
    /\ sleepLeft = 0
    /\ shutdown_requested = FALSE
    /\ config = [telegram_enabled |-> FALSE,
                 only_notify_on_availability |-> TRUE, pinger |-> FALSE]
    /\ search = <<>>
    /\ lastDispatch = <<>>
    /\ pinger = NewPinger("u")

\* The cache driven by an arbitrary caller
Init == CacheInit /\ lastCall = Constructed(file, FALSE) /\ MonitorIdle

Next ==
    \/ \E in \in CacheInputs : ShouldSendNotification(in[1], in[2])
    \/ \E in \in AddInputs, outcome \in WriteOutcomes :
           AddToCache(in[1], in[2], outcome)
    \/ \E outcome \in WriteOutcomes : CleanupExpired(outcome)
    \/ Tick

Spec == Init /\ [][Next]_vars

\* A later process: NotificationCache.__init__ on the file as it stands
Reload ==
    /\ cache_data' = LoadCache(file)
    /\ file' = FileAfterLoad(file)
    /\ lastCall' = Constructed(file, lastCall.op = "__init__")
    /\ UNCHANGED <<now, recordedAt, writeFailures, monitorVars>>

\* an entry as add_to_cache wrote it, damaged on disk afterwards: the
\* expires_at field is gone, or holds text that is no timestamp
CorruptEntries ==
    UNION { { [x \in DOMAIN NewEntry(in[1], in[2], 0) \ {"expires_at"} |->
                  NewEntry(in[1], in[2], 0)[x]],
              [NewEntry(in[1], in[2], 0) EXCEPT
                  !.expires_at = <<"not a timestamp">>] } :
            in \in { i \in AddInputs :
                       /\ DictGet(i[1], "available_trains", <<>>) # <<>>
                       /\ i[1].available_trains[1].available_seats = 1 } }

\* the key add_to_cache stored the damaged entry under
CorruptKey ==
    CHOOSE k \in { GenerateCacheKey(in[1], in[2]) : in \in AddInputs } :
        \E in \in AddInputs :
            /\ k = GenerateCacheKey(in[1], in[2])
            /\ DictGet(in[1], "available_trains", <<>>) # <<>>
            /\ in[1].available_trains[1].available_seats = 1

\* what the constructor may find at cache_file_path
LoadFiles ==
    {FileMissing, FileInvalid, FileUnreadable}
    \cup { FileJson(StoreWithEntry(EmptyStore, CorruptKey, e)) :
              e \in CorruptEntries }

\* NotificationCache.__init__ on any of these files
LoadInit ==
    /\ file \in LoadFiles
    /\ cache_data = LoadCache(file)
    /\ lastCall = Constructed(file, FALSE)
    /\ now = 0
    /\ recordedAt = <<>>
    /\ writeFailures = 0
    /\ MonitorIdle

\* the constructor on any content of the file: also JSON that is no object
\* and an object without "entries"
ShapeFiles ==
    LoadFiles \cup {FileJsonOther, FileJson([cache_version |-> "1.0"])}

ShapeInit ==
    /\ file \in ShapeFiles
    /\ cache_data = LoadCache(file)
    /\ lastCall = Constructed(file, FALSE)
    /\ now = 0
    /\ recordedAt = <<>>
    /\ writeFailures = 0
    /\ MonitorIdle

\* the cache API over restarts of the process, with working storage
LoadNext ==
    \/ \E in \in CacheInputs : ShouldSendNotification(in[1], in[2])
    \/ \E in \in AddInputs : AddToCache(in[1], in[2], "ok")
    \/ CleanupExpired("ok")
    \/ Reload
    \/ Tick

LoadSpec == LoadInit /\ [][LoadNext]_vars

ShapeSpec == ShapeInit /\ [][LoadNext]_vars

\* Key derivation applied to each input, then add_to_cache on the same input
KeyInit ==
    /\ CacheInit
    /\ file = FileMissing
    /\ MonitorIdle
    /\ \E in \in KeyInputs :
           lastCall = [op |-> "input", result |-> in[1], settings |-> in[2]]

KeyGenerate ==
    /\ lastCall.op = "input"
    /\ lastCall' = [op |-> "_generate_cache_key",
                    result |-> lastCall.result,
                    settings |-> lastCall.settings,
                    key_data |-> KeyData(lastCall.result, lastCall.settings),
                    key |-> GenerateCacheKey(lastCall.result,
                                             lastCall.settings)]
    /\ UNCHANGED <<cache_data, file, now, recordedAt, writeFailures,
                   monitorVars>>

KeyRecord ==
    /\ lastCall.op = "_generate_cache_key"
    /\ AddToCache(lastCall.result, lastCall.settings, "ok")

KeyNext == KeyGenerate \/ KeyRecord

KeySpec == KeyInit /\ [][KeyNext]_vars

\* The monitor started with --continuous; no NotificationCache is
\* constructed anywhere on this path
MonitorInit ==
    /\ CacheInit
    /\ file = FileMissing
    /\ lastCall = Constructed(file, FALSE)
    /\ running = TRUE
    /\ mpc = "while"
    /\ sleepLeft = 0
    /\ shutdown_requested = FALSE
    /\ config \in [telegram_enabled : BOOLEAN,
                   only_notify_on_availability : BOOLEAN,
                   pinger : BOOLEAN]
    /\ search = <<>>
    /\ lastDispatch = <<>>
    /\ pinger = NewPinger("u")

MonitorNext ==
    \/ MonitorWhile
    \/ MonitorPing
    \/ MonitorSearch
    \/ MonitorSend
    \/ MonitorAfterSearch
    \/ MonitorExcept
    \/ MonitorSleep
    \/ SignalHandler

MonitorSpec == MonitorInit /\ [][MonitorNext]_vars

\* the steps of the thread that runs run_continuous_monitoring
MonitorLoopStep ==
    \/ MonitorWhile
    \/ MonitorPing
    \/ MonitorSearch
    \/ MonitorSend
    \/ MonitorAfterSearch
    \/ MonitorExcept
    \/ MonitorSleep

\* The monitor whose main thread keeps running: every call of the loop
\* (the scrape, a send, a one-second sleep) returns
MonitorFairSpec == MonitorSpec /\ WF_vars(MonitorLoopStep)

\* A HealthCheckPinger driven by one caller, and the threads it spawned
PingerInit ==
    /\ CacheInit
    /\ file = FileMissing
    /\ lastCall = Constructed(file, FALSE)
    /\ running = TRUE
    /\ mpc = "idle"
    /\ sleepLeft = 0
    /\ shutdown_requested = FALSE
    /\ config = [telegram_enabled |-> FALSE,
                 only_notify_on_availability |-> TRUE, pinger |-> FALSE]
    /\ search = <<>>
    /\ lastDispatch = <<>>
    /\ pinger \in { NewPinger(url) : url \in Urls }

PingerNext ==
    \/ PingerStart
    \/ \E ok \in BOOLEAN : PingerSpawn(ok)
    \/ PingerStop
    \/ PingerJoin
    \/ \E i \in DOMAIN pinger.threads : LoopTest(i)
    \/ \E i \in DOMAIN pinger.threads : LoopWait(i)
    \/ \E i \in DOMAIN pinger.threads, ok \in BOOLEAN : LoopPing(i, ok)

PingerSpec == PingerInit /\ [][PingerNext]_vars


----------------------------------------------------------------------------
(* Vocabulary of the properties *)

\* result.success is present and true
IsSuccess(result) == "success" \in DOMAIN result /\ result.success = TRUE

OutboundOf(result) == DictGet(result, "available_trains", <<>>)
ReturnOf(result) == DictGet(result, "return_trains", <<>>)

\* the result has a train in one of its lists
HasTrains(result) == OutboundOf(result) # <<>> \/ ReturnOf(result) # <<>>

\* the last call was should_send_notification and returned
Decided == lastCall.op = "should_send_notification" /\ ~ lastCall.raised

\* key of the inputs of the last call
LastKey == GenerateCacheKey(lastCall.result, lastCall.settings)

Entries == cache_data.entries

\* C1: Suppression window.  For a successful result with at least one train
\* whose key was recorded by add_to_cache at clock reading T, a call of
\* should_send_notification at a reading before T + expiry_hours returns
\* False and keeps the entry; a call at or after T + expiry_hours returns
\* True and leaves the store without an entry under that key.
C1_SuppressionWindow ==
    [][( /\ lastCall'.op = "should_send_notification"
         /\ IsSuccess(lastCall'.result) /\ HasTrains(lastCall'.result)
         /\ GenerateCacheKey(lastCall'.result, lastCall'.settings)
                \in DOMAIN recordedAt
         /\ ShouldSendNotification(lastCall'.result, lastCall'.settings) )
       => LET key == GenerateCacheKey(lastCall'.result, lastCall'.settings)
          IN  /\ ~ lastCall'.raised
              /\ now < recordedAt[key] + ExpiryHours
                   => ~ lastCall'.returned /\ key \in DOMAIN Entries'
              /\ now >= recordedAt[key] + ExpiryHours
                   => lastCall'.returned /\ key \notin DOMAIN Entries'
      ]_vars

\* C1 witness: a recorded key was looked up after its window had passed,
\* the call returned True and the entry is gone
C1_Witness ==
    /\ Decided /\ lastCall.returned
    /\ IsSuccess(lastCall.result) /\ HasTrains(lastCall.result)
    /\ LastKey \in DOMAIN recordedAt
    /\ now >= recordedAt[LastKey] + ExpiryHours
    /\ LastKey \notin DOMAIN Entries

\* C3: Two-phase contract.  A call of should_send_notification never adds
\* a key to the store; a key appears in the store only in an add_to_cache
\* step, and it is the key of that call's inputs.  A call that returns True
\* for a successful result with trains leaves no entry under its key, and a
\* call made while the key has no entry returns True: so a True answer that
\* is not followed by add_to_cache is repeated by every later call.
C3_TwoPhase ==
    [][/\ ( /\ lastCall'.op = "should_send_notification"
            /\ ShouldSendNotification(lastCall'.result, lastCall'.settings) )
          => /\ DOMAIN Entries' \subseteq DOMAIN Entries
             /\ ( /\ IsSuccess(lastCall'.result) /\ HasTrains(lastCall'.result)
                  /\ ~ lastCall'.raised )
                => LET key == GenerateCacheKey(lastCall'.result,
                                               lastCall'.settings)
                   IN  /\ lastCall'.returned => key \notin DOMAIN Entries'
                       /\ key \notin DOMAIN Entries => lastCall'.returned
       /\ ~ (DOMAIN Entries' \subseteq DOMAIN Entries)
          => /\ lastCall'.op = "add_to_cache"
             /\ DOMAIN Entries' \ DOMAIN Entries =
                  {GenerateCacheKey(lastCall'.result, lastCall'.settings)}
      ]_vars

\* C3 witness: a key that was never recorded was looked up while another
\* key had an entry; the answer was True and the key still has no entry
C3_Witness ==
    /\ Decided /\ lastCall.returned
    /\ IsSuccess(lastCall.result) /\ HasTrains(lastCall.result)
    /\ LastKey \notin DOMAIN recordedAt
    /\ LastKey \notin DOMAIN Entries
    /\ DOMAIN Entries # {}

\* C4: Failure passthrough.  For a result whose success is false or missing
\* should_send_notification returns True and leaves the store and the file
\* as they were, also when the store holds a live entry under the key the
\* result derives.
C4_FailurePassthrough ==
    [][( /\ lastCall'.op = "should_send_notification"
         /\ ~ IsSuccess(lastCall'.result)
         /\ ShouldSendNotification(lastCall'.result, lastCall'.settings) )
       => /\ lastCall'.returned
          /\ ~ lastCall'.raised
          /\ cache_data' = cache_data
          /\ file' = file
      ]_vars

\* C4 witness: a result with trains and without success was answered True
\* while a live entry sits under its key
C4_Witness ==
    /\ Decided /\ lastCall.returned
    /\ "success" \notin DOMAIN lastCall.result
    /\ HasTrains(lastCall.result)
    /\ LastKey \in DOMAIN Entries
    /\ now < FromIsoFormat(Entries[LastKey].expires_at)[2]

\* C5: Empty-availability short-circuit.  For a successful result whose two
\* train lists are empty should_send_notification returns False and leaves
\* the store and the file as they were, whatever the store holds.
C5_EmptyShortCircuit ==
    [][( /\ lastCall'.op = "should_send_notification"
         /\ IsSuccess(lastCall'.result)
         /\ ~ HasTrains(lastCall'.result)
         /\ ShouldSendNotification(lastCall'.result, lastCall'.settings) )
       => /\ ~ lastCall'.returned
          /\ ~ lastCall'.raised
          /\ cache_data' = cache_data
          /\ file' = file
      ]_vars

\* C5 witness: a successful result without trains was answered False while
\* the store holds an expired entry under the key of that very result
C5_Witness ==
    /\ Decided /\ ~ lastCall.returned
    /\ IsSuccess(lastCall.result) /\ ~ HasTrains(lastCall.result)
    /\ LastKey \in DOMAIN Entries
    /\ LastKey \in DOMAIN recordedAt
    /\ now >= recordedAt[LastKey] + ExpiryHours

\* C2: End-to-end deduplication.  Over the iterations of the monitor a
\* notification for one (result, params) is posted at most once within
\* expiry_hours: when the post for a key follows an earlier post for the
\* same key, at least expiry_hours lie between the two.
C2_AtMostOncePerWindow ==
    [][\A key \in DOMAIN lastDispatch :
          lastDispatch'[key] # lastDispatch[key]
          => lastDispatch'[key] >= lastDispatch[key] + ExpiryHours
      ]_vars

----------------------------------------------------------------------------
(* Properties of the key derivation, on the state after _generate_cache_key
   and after the add_to_cache that follows it *)

KeyDerived == lastCall.op = "_generate_cache_key"
Recorded == lastCall.op = "add_to_cache"

\* the rearrangements of a list
Rearrangements(seq) ==
    { [i \in 1..Len(seq) |-> seq[p[i]]] :
        p \in { q \in [1..Len(seq) -> 1..Len(seq)] :
                  \A i, j \in 1..Len(seq) : q[i] = q[j] => i = j } }

\* C6: Order-independence.  Rearranging the trains inside available_trains
\* and inside return_trains does not change the derived key, also when
\* trains of one list share a train_number.
C6_OrderIndependence ==
    KeyDerived =>
        \A a \in Rearrangements(OutboundOf(lastCall.result)),
           r \in Rearrangements(ReturnOf(lastCall.result)) :
            GenerateCacheKey([lastCall.result EXCEPT
                                  !.available_trains = a,
                                  !.return_trains = r],
                             lastCall.settings) = lastCall.key

\* the signature fields of two trains differ
SignatureDiffers(t, u) ==
    \/ t.train_number # u.train_number
    \/ t.departure_time # u.departure_time
    \/ t.available_seats # u.available_seats

\* the results that differ from result in the signature of one train
OneTrainChanged(result) ==
    UNION { { [result EXCEPT !.available_trains[i] = u] :
                u \in { v \in Trains :
                          SignatureDiffers(v, result.available_trains[i]) } } :
            i \in 1..Len(result.available_trains) }
    \cup
    UNION { { [result EXCEPT !.return_trains[i] = u] :
                u \in { v \in Trains :
                          SignatureDiffers(v, result.return_trains[i]) } } :
            i \in 1..Len(result.return_trains) }

\* C7: Sensitivity.  Changing available_seats, train_number or
\* departure_time of one train, outbound or return, changes the structure
\* that is serialised and the derived key.
C7_Sensitivity ==
    KeyDerived =>
        \A changed \in OneTrainChanged(lastCall.result) :
            /\ KeyData(changed, lastCall.settings) # lastCall.key_data
            /\ GenerateCacheKey(changed, lastCall.settings) # lastCall.key

\* C7 witness: a key was derived for a result with an outbound and a
\* return train
C7_Witness ==
    /\ KeyDerived
    /\ OutboundOf(lastCall.result) # <<>>
    /\ ReturnOf(lastCall.result) # <<>>

\* the other one of the two directions
Flipped(direction) == CHOOSE d \in Direction : d # direction

\* the first n tags are outbound, the remaining m are the flipped direction
TaggedOutboundThenReturn(trains, n, m, direction) ==
    /\ Len(trains) = n + m
    /\ \A i \in 1..n : trains[i].direction = direction
    /\ \A i \in (n + 1)..(n + m) : trains[i].direction = Flipped(direction)

\* C8: Direction-tagging.  In the signature list of the key every outbound
\* train carries params.direction and every return train the opposite
\* direction, for both directions; the entry written by add_to_cache carries
\* the same tags in its trains list.
C8_DirectionTagging ==
    /\ KeyDerived =>
         TaggedOutboundThenReturn(lastCall.key_data.trains,
             Len(OutboundOf(lastCall.result)), Len(ReturnOf(lastCall.result)),
             lastCall.settings.direction)
    /\ Recorded =>
         /\ LastKey \in DOMAIN Entries
         /\ TaggedOutboundThenReturn(Entries[LastKey].trains,
                Len(OutboundOf(lastCall.result)),
                Len(ReturnOf(lastCall.result)),
                lastCall.settings.direction)

\* C8 witness: an entry was written for a JB_TO_SG search with an outbound
\* and a return train
C8_Witness ==
    /\ Recorded
    /\ lastCall.settings.direction = JB_TO_SG
    /\ OutboundOf(lastCall.result) # <<>>
    /\ ReturnOf(lastCall.result) # <<>>
    /\ LastKey \in DOMAIN Entries

\* the results that differ from result in arrival_time values only
ArrivalVariants(result) ==
    { [result EXCEPT !.available_trains = a, !.return_trains = r] :
        a \in { v \in [1..Len(result.available_trains) -> 
                         [train_number : TrainNumbers,
                          departure_time : DepartureTimes,
                          arrival_time : ArrivalTimes,
                          available_seats : SeatCounts]] :
                  \A i \in 1..Len(v) :
                     ~ SignatureDiffers(v[i], result.available_trains[i]) },
        r \in { v \in [1..Len(result.return_trains) ->
                         [train_number : TrainNumbers,
                          departure_time : DepartureTimes,
                          arrival_time : ArrivalTimes,
                          available_seats : SeatCounts]] :
                  \A i \in 1..Len(v) :
                     ~ SignatureDiffers(v[i], result.return_trains[i]) } }

\* C9: Determinism.  The derived key does not depend on train fields
\* outside the signature (arrival_time), and the key under which
\* add_to_cache stores its entry - computed later, against another store
\* state - is the key derived before for the same inputs.
C9_Determinism ==
    /\ [](KeyDerived =>
            \A variant \in ArrivalVariants(lastCall.result) :
                GenerateCacheKey(variant, lastCall.settings) = lastCall.key)
    /\ [][(KeyDerived /\ lastCall'.op = "add_to_cache")
            => DOMAIN Entries' = {lastCall.key}]_vars

\* C9 witness: the entry of a result with two trains is stored under the
\* key derived for it
C9_Witness ==
    /\ Recorded
    /\ Len(OutboundOf(lastCall.result)) + Len(ReturnOf(lastCall.result)) >= 2
    /\ DOMAIN Entries = {LastKey}

\* C10: The return_date hashed into the key is the ISO string of
\* params.return_date when that is present and null only when it is absent,
\* whether or not return_trains is empty, and add_to_cache stores the same
\* value as the entry's return_date.
C10_ReturnDateInKey ==
    /\ KeyDerived =>
         lastCall.key_data.return_date =
             IF lastCall.settings.return_date # None
             THEN <<"iso", "date", lastCall.settings.return_date[2]>>
             ELSE None
    /\ Recorded =>
         Entries[LastKey].return_date =
             KeyData(lastCall.result, lastCall.settings).return_date

----------------------------------------------------------------------------
(* Properties of the stored entries, of the file and of the constructor *)

\* the last step was a call of add_to_cache whose write ended in outcome
AddStep(outcome) ==
    /\ lastCall'.op = "add_to_cache"
    /\ AddToCache(lastCall'.result, lastCall'.settings, outcome)

\* the last step was a call of cleanup_expired whose write ended in outcome
CleanupStep(outcome) ==
    /\ lastCall'.op = "cleanup_expired"
    /\ CleanupExpired(outcome)

\* the last step was a call of should_send_notification
ShouldSendStep ==
    /\ lastCall'.op = "should_send_notification"
    /\ ShouldSendNotification(lastCall'.result, lastCall'.settings)

\* entries of the store the file holds
FileEntries == IF file.kind = "json" THEN file.data.entries ELSE <<>>

\* the entry carries the stamps add_to_cache gave it at clock reading t
Stamped(entry, t) ==
    /\ ExpiryReadable(entry)
    /\ "notified_at" \in DOMAIN entry
    /\ entry.notified_at = IsoFormat(DateTimeNow(t))
    /\ FromIsoFormat(entry.expires_at) =
           PlusHours(<<"datetime", entry.notified_at[3]>>, ExpiryHours)

\* C11: Fixed TTL.  Every entry written by add_to_cache has notified_at
\* equal to the clock reading of that call and expires_at = notified_at +
\* expiry_hours, and it keeps both for as long as it exists: in the store
\* and in the file, through should_send_notification, cleanup_expired,
\* saves and loads, an entry under a recorded key carries the stamps of
\* the last add_to_cache on that key.
C11_FixedTtl ==
    \A k \in DOMAIN recordedAt :
        /\ k \in DOMAIN Entries => Stamped(Entries[k], recordedAt[k])
        /\ k \in DOMAIN FileEntries => Stamped(FileEntries[k], recordedAt[k])

\* C11 witness: a new process has loaded an entry that was recorded by an
\* earlier one and has expired since; it still carries its stamps
C11_Witness ==
    /\ lastCall.op = "__init__"
    /\ \E k \in DOMAIN recordedAt \cap DOMAIN Entries :
          /\ now >= recordedAt[k] + ExpiryHours
          /\ Stamped(Entries[k], recordedAt[k])

\* C12: add_to_cache inserts or overwrites.  After the call the store
\* holds under the derived key the entry built from the call's inputs and
\* clock reading, every other key has the entry it had and no other key is
\* added or removed; when the write succeeds the file holds the store as
\* it is in memory after the call.
C12_RecordInsertsOrOverwrites ==
    [][\A outcome \in WriteOutcomes :
          AddStep(outcome) =>
            LET key == GenerateCacheKey(lastCall'.result, lastCall'.settings)
            IN  /\ DOMAIN Entries' = DOMAIN Entries \cup {key}
                /\ Entries'[key] =
                       NewEntry(lastCall'.result, lastCall'.settings, now)
                /\ \A k \in DOMAIN Entries \ {key} : Entries'[k] = Entries[k]
                /\ outcome = "ok" => file' = FileJson(cache_data')
      ]_vars

\* C12 witness: a key that had an entry was recorded again at a later
\* reading while another key had an entry too, and the file holds both
C12_Witness ==
    /\ lastCall.op = "add_to_cache"
    /\ Cardinality(DOMAIN Entries) >= 2
    /\ LastKey \in DOMAIN recordedAt
    /\ recordedAt[LastKey] > 0
    /\ \E k \in DOMAIN Entries \ {LastKey} :
          /\ k \in DOMAIN recordedAt
          /\ recordedAt[k] < recordedAt[LastKey]
    /\ file = FileJson(cache_data)

\* C13: Flush after every mutation.  Every call of should_send_notification,
\* add_to_cache or cleanup_expired that changes the in-memory store writes
\* the store to the file before it returns: with working storage the file
\* holds the in-memory store after the call.
C13_FlushAfterMutation ==
    [][(lastCall'.op # "__init__" /\ cache_data' # cache_data)
         => /\ lastCall'.writes >= 1
            /\ file' = FileJson(cache_data')
      ]_vars

\* the keys whose entry is due at clock reading t, or has no expires_at, or
\* one that is no timestamp
DueOrCorrupt(entries, t) ==
    { k \in DOMAIN entries :
        \/ "expires_at" \notin DOMAIN entries[k]
        \/ ~ IsIsoDateTime(entries[k].expires_at)
        \/ entries[k].expires_at[3] <= t }

\* C14: cleanup_expired removes exactly the entries whose expires_at <= now
\* or whose expires_at is absent or unparseable, leaves every other entry
\* as it was, and returns the number of entries it removed (the integer n
\* is written <<n>>, None is <<>>).
C14_CleanupRemovesAndCounts ==
    [][CleanupStep("ok")
         => /\ DOMAIN Entries' = DOMAIN Entries \ DueOrCorrupt(Entries, now)
            /\ \A k \in DOMAIN Entries' : Entries'[k] = Entries[k]
            /\ lastCall'.returned =
                   <<Cardinality(DueOrCorrupt(Entries, now))>>
      ]_vars

\* C15: cleanup_expired writes the file once when it removed an entry, and
\* neither writes the file nor changes the store when no entry is due or
\* corrupt.
C15_CleanupWritesOnce ==
    [][CleanupStep("ok")
         => IF DueOrCorrupt(Entries, now) # {}
            THEN /\ lastCall'.writes = 1
                 /\ file' = FileJson(cache_data')
            ELSE /\ lastCall'.writes = 0
                 /\ file' = file
                 /\ cache_data' = cache_data
      ]_vars

\* C15 witness: cleanup_expired ran with a live entry and nothing to
\* remove while the file was behind the store (a lazy eviction had dropped
\* an entry the file still holds); the call left store and file alone
C15_Witness ==
    /\ lastCall.op = "cleanup_expired"
    /\ lastCall.removed = 0
    /\ lastCall.writes = 0
    /\ DOMAIN Entries # {}
    /\ file.kind = "json"
    /\ file # FileJson(cache_data)

\* the file is missing, cannot be read, or is no JSON
Unloadable(f) == f.kind \in {"missing", "unreadable", "invalid"}

\* C16: Corrupt-file recovery.  Constructing the cache on a file that is
\* missing, unreadable or no JSON does not raise and gives the store
\* {cache_version: "1.0", entries: {}}; the first should_send_notification
\* after it returns True for every successful result with a train.
C16_CorruptFileRecovery ==
    /\ []((lastCall.op = "__init__" /\ Unloadable(file))
            => ~ lastCall.raised /\ cache_data = EmptyStore)
    /\ [][( /\ lastCall.op = "__init__" /\ Unloadable(file)
             /\ ShouldSendStep
             /\ IsSuccess(lastCall'.result) /\ HasTrains(lastCall'.result) )
           => lastCall'.returned /\ ~ lastCall'.raised
         ]_vars

\* C16 witness: the cache was built on a file that is no JSON and a
\* successful result with a train was answered True
C16_Witness ==
    /\ file.kind = "invalid"
    /\ Decided /\ lastCall.returned
    /\ IsSuccess(lastCall.result) /\ HasTrains(lastCall.result)
    /\ cache_data = EmptyStore

\* C17: No fatal error from corrupt entries.  When the entry under the
\* derived key has no expires_at or one that is no timestamp,
\* should_send_notification does not raise: it removes the entry and
\* returns True, as cleanup_expired would remove it.
C17_CorruptEntryTolerated ==
    [][( /\ ShouldSendStep
         /\ IsSuccess(lastCall'.result) /\ HasTrains(lastCall'.result)
         /\ GenerateCacheKey(lastCall'.result, lastCall'.settings)
                \in DueOrCorrupt(Entries, now)
         /\ ~ ExpiryReadable(
                Entries[GenerateCacheKey(lastCall'.result,
                                         lastCall'.settings)]) )
       => /\ ~ lastCall'.raised
          /\ lastCall'.returned
          /\ GenerateCacheKey(lastCall'.result, lastCall'.settings)
                 \notin DOMAIN Entries'
      ]_vars

C19_PersistenceIdempotence ==
    [][(lastCall'.op = "__init__" /\ Reload)
         => /\ file' = file
            /\ lastCall.op = "__init__" => cache_data' = cache_data
      ]_vars

\* C19 witness: the cache was constructed twice in a row, later than the
\* record that wrote the file, and holds the recorded entry
C19_Witness ==
    /\ lastCall.op = "__init__" /\ lastCall.again
    /\ \E k \in DOMAIN recordedAt \cap DOMAIN Entries : now > recordedAt[k]
    /\ file = FileJson(cache_data)

\* the successful one-train results of one search: they differ in the
\* train's seat count only
Snapshots == { in \in AddInputs : HasTrains(in[1]) }

\* the key derived for each snapshot
SnapshotKey == [A \in Snapshots |-> GenerateCacheKey(A[1], A[2])]

\* the snapshots of the same search that differ from the snapshot of the
\* call in a seat count and were recorded less than expiry_hours ago
LiveOthers(call) ==
    { A \in Snapshots :
        /\ A[2] = call.settings
        /\ A[1].available_trains[1].available_seats #
               call.result.available_trains[1].available_seats
        /\ SnapshotKey[A] \in DOMAIN recordedAt
        /\ now < recordedAt[SnapshotKey[A]] + ExpiryHours }

\* C20: Suppression is per exact snapshot.  After add_to_cache(A) at T,
\* should_send_notification(B) returns True for a snapshot B of the same
\* search that differs from A in a seat count and was not recorded itself;
\* add_to_cache(B) keeps the entry of A, and should_send_notification(A)
\* returns False at every reading before T + expiry_hours, also after B
\* was recorded.
C20_PerSnapshot ==
    [][/\ ( /\ lastCall'.op = "should_send_notification"
            /\ <<lastCall'.result, lastCall'.settings>> \in Snapshots
            /\ ShouldSendStep )
          => LET key == SnapshotKey[<<lastCall'.result, lastCall'.settings>>]
             IN  /\ (key \notin DOMAIN recordedAt /\ LiveOthers(lastCall') # {})
                      => lastCall'.returned /\ ~ lastCall'.raised
                 /\ (key \in DOMAIN recordedAt
                        /\ now < recordedAt[key] + ExpiryHours)
                      => ~ lastCall'.returned /\ ~ lastCall'.raised
       /\ ( /\ lastCall'.op = "add_to_cache"
            /\ <<lastCall'.result, lastCall'.settings>> \in Snapshots
            /\ LiveOthers(lastCall') # {}
            /\ \E outcome \in WriteOutcomes : AddStep(outcome) )
          => \A A \in LiveOthers(lastCall') :
                LET keyA == SnapshotKey[A]
                IN  /\ keyA \in DOMAIN Entries'
                    /\ Stamped(Entries'[keyA], recordedAt[keyA])
      ]_vars

\* C20 witness: A was recorded, then B at a later reading, and
\* should_send_notification(A) was answered False inside A's window
C20_Witness ==
    /\ Decided /\ ~ lastCall.returned
    /\ <<lastCall.result, lastCall.settings>> \in Snapshots
    /\ LastKey \in DOMAIN recordedAt
    /\ now < recordedAt[LastKey] + ExpiryHours
    /\ \E B \in Snapshots :
          LET keyB == GenerateCacheKey(B[1], B[2])
          IN  /\ keyB # LastKey
              /\ keyB \in DOMAIN recordedAt
              /\ recordedAt[keyB] > recordedAt[LastKey]
              /\ keyB \in DOMAIN Entries

\* C24: Lazy eviction touches only the looked-up key.  A call of
\* should_send_notification removes at most the entry under the derived
\* key, and only when that entry has expired; every other entry, expired
\* or not, stays as it was, and no entry is added.
C24_LazyEvictionOneKey ==
    [][ShouldSendStep
         => LET key == GenerateCacheKey(lastCall'.result, lastCall'.settings)
                gone == DOMAIN Entries \ DOMAIN Entries'
            IN  /\ DOMAIN Entries' \subseteq DOMAIN Entries
                /\ \A k \in DOMAIN Entries' : Entries'[k] = Entries[k]
                /\ gone \subseteq {key}
                /\ \A k \in gone :
                      /\ ExpiryReadable(Entries[k])
                      /\ Entries[k].expires_at[3] <= now
      ]_vars

\* C24 witness: the looked-up key was evicted while another entry that
\* has expired as well is still in the store
C24_Witness ==
    /\ Decided /\ lastCall.returned
    /\ LastKey \in DOMAIN recordedAt
    /\ LastKey \notin DOMAIN Entries
    /\ \E k \in DOMAIN Entries :
          /\ ExpiryReadable(Entries[k])
          /\ Entries[k].expires_at[3] <= now

\* C27: The two expiry tests agree.  At a call of cleanup_expired, for
\* every snapshot whose key has a well-formed entry, the entry is removed
\* exactly when should_send_notification for that snapshot, asked in the
\* same state, would return True, and that is exactly when
\* now >= expires_at.
C27_ExpiryTestsAgree ==
    [][(\E outcome \in WriteOutcomes : CleanupStep(outcome))
         => \A A \in Snapshots :
               (SnapshotKey[A] \in DOMAIN Entries
                  /\ ExpiryReadable(Entries[SnapshotKey[A]]))
               => /\ (SnapshotKey[A] \notin DOMAIN Entries')
                       <=> ShouldSendReturn(cache_data, A[1], A[2], now)
                  /\ (SnapshotKey[A] \notin DOMAIN Entries')
                       <=> (now >= Entries[SnapshotKey[A]].expires_at[3])
      ]_vars

\* C27 witness: cleanup_expired ran at the very reading at which the one
\* recorded entry expires, and removed it
C27_Witness ==
    /\ lastCall.op = "cleanup_expired"
    /\ lastCall.removed = 1
    /\ Entries = <<>>
    /\ \E k \in DOMAIN recordedAt :
          /\ DOMAIN recordedAt = {k}
          /\ k \in { SnapshotKey[A] : A \in Snapshots }
          /\ now = recordedAt[k] + ExpiryHours

\* what should_send_notification does on store at clock reading t
Answer(store, in, t) ==
    IF ShouldSendRaises(store, in[1], in[2], t) THEN <<"raises">>
    ELSE <<"returns", ShouldSendReturn(store, in[1], in[2], t)>>

\* the two stores give the same answer to every call from reading t on
SameAnswers(s1, s2, t) ==
    \A in \in CacheInputs, u \in t..(MaxTime + ExpiryHours) :
        Answer(s1, in, u) = Answer(s2, in, u)

\* the store of a process that was rebuilt from the file before the last
\* call and then made that call
Rebuilt ==
    LET R == LoadCache(file)
    IN  IF lastCall'.op = "should_send_notification" /\ ShouldSendStep
        THEN IF ShouldSendRaises(R, lastCall'.result, lastCall'.settings, now)
             THEN R
             ELSE ShouldSendStore(R, lastCall'.result, lastCall'.settings, now)
        ELSE IF lastCall'.op = "add_to_cache" /\ AddStep("ok")
        THEN StoreWithEntry(R,
                 GenerateCacheKey(lastCall'.result, lastCall'.settings),
                 NewEntry(lastCall'.result, lastCall'.settings, now))
        ELSE IF lastCall'.op = "cleanup_expired" /\ CleanupStep("ok")
        THEN [R EXCEPT !.entries =
                 [k \in DOMAIN @ \ ExpiredKeys(R, now) |-> @[k]]]
        ELSE R

\* C28: Restart equivalence.  With every write succeeding and the clock
\* moving forward only, the store a new process would load from the file
\* answers every should_send_notification call, now and at every later
\* reading, as the in-memory store does; and when the process is rebuilt
\* from the file just before a call, the store after the call again
\* answers as the store of the process that was not rebuilt (when that
\* store is the one the file gives after the call, the first part says so).
C28_RestartEquivalence ==
    /\ [] SameAnswers(cache_data, LoadCache(file), now)
    /\ [][Rebuilt # LoadCache(file')
            => SameAnswers(cache_data', Rebuilt, now')]_vars

\* C28 witness: a lazy eviction has left the file holding an entry the
\* in-memory store no longer has
C28_Witness ==
    /\ Decided /\ lastCall.returned
    /\ LastKey \in DOMAIN recordedAt
    /\ LastKey \notin DOMAIN Entries
    /\ LastKey \in DOMAIN FileEntries
    /\ cache_data # LoadCache(file)

\* C30: Store shape.  After construction from any content of the file and
\* after any calls, the in-memory store is an object with an entries
\* mapping, no call raises for the lack of it, and a file written by a
\* save holds such an object.
C30_StoreShape ==
    /\ HasEntries(cache_data)
    /\ file.kind = "json" /\ lastCall.op # "__init__"
         => (lastCall.writes > 0 => HasEntries(file.data))
    /\ (lastCall.op # "__init__" /\ lastCall.raised)
         => HasEntries(cache_data)

----------------------------------------------------------------------------
(* HealthCheckPinger: start, stop and the ping loop *)

\* a call of start() returns in this step
StartReturns ==
    \/ PingerStart /\ pinger'.caller = "idle"
    \/ \E ok \in BOOLEAN : PingerSpawn(ok)

\* a call of stop() returns in this step
StopReturns ==
    \/ PingerStop /\ pinger'.caller = "idle"
    \/ PingerJoin

\* thread i takes a step of _ping_loop
LoopSteps(i) ==
    \/ LoopTest(i)
    \/ LoopWait(i)
    \/ \E ok \in BOOLEAN : LoopPing(i, ok)

C22_PingFailuresTolerated ==
    /\ [][(\E ok \in BOOLEAN : PingerSpawn(ok)) =>
            (~ pinger'.call.ping_ok =>
                pinger'.call.returned = "True" /\ is_running(pinger'))]_vars
    /\ [][\A i \in DOMAIN pinger.threads :
            /\ (pinger.threads[i].pc = "ping"
                    /\ pinger'.threads[i] # pinger.threads[i])
                 => pinger'.threads[i].pc = "test"
            /\ (pinger.threads[i].pc # "done"
                    /\ pinger'.threads[i].pc = "done")
                 => pinger._stop_event]_vars

\* the initial ping failed, a ping of the loop failed, and the loop is
\* sending its next ping
C22_Witness ==
    /\ pinger.call.op = "start"
    /\ pinger.call.returned = "True"
    /\ ~ pinger.call.ping_ok
    /\ is_running(pinger)
    /\ \E i \in DOMAIN pinger.threads :
          pinger.threads[i].last = "fail" /\ pinger.threads[i].pc = "ping"

\* C23: when stop() returns is_running is false; a loop that observes the
\* stop event ends without another ping, and an ended loop sends nothing;
\* stop() on a pinger that is not running changes nothing
C23_StopEndsLoop ==
    /\ [][StopReturns => ~ is_running(pinger')]_vars
    /\ [][\A i \in DOMAIN pinger.threads :
            /\ (pinger._stop_event /\ pinger.threads[i].pc \in {"test", "wait"}
                    /\ LoopSteps(i))
                 => /\ pinger'.threads[i].pc = "done"
                    /\ pinger'.threads[i].pings = pinger.threads[i].pings
            /\ pinger.threads[i].pc = "done"
                 => pinger'.threads[i] = pinger.threads[i]]_vars
    /\ [][(PingerStop /\ ~ is_running(pinger)) =>
            pinger' = [pinger EXCEPT !.call = pinger'.call]]_vars

\* stop() has returned from a joined thread that had sent a ping
C23_Witness ==
    /\ pinger.call.op = "stop"
    /\ pinger.call.was_running
    /\ ~ is_running(pinger)
    /\ pinger.caller = "idle"
    /\ pinger.threads[pinger._thread].pc = "done"
    /\ pinger.threads[pinger._thread].pings > 0

\* C29: between the calls of start() and stop() at most one ping loop of
\* the pinger is alive
C29_OneLoopAlive ==
    pinger.caller = "idle" => Cardinality(AliveThreads(pinger)) <= 1

----------------------------------------------------------------------------
(* The monitor loop: shutdown and retry *)

\* run_continuous_monitoring has been left
LoopLeft == mpc \in {"stopped", "crashed", "exited"}

\* C25: once the signal handler has set running to false the loop starts
\* no further iteration, either wait is abandoned at its next sleep step,
\* the loop is eventually left, and a second signal exits the process
C25_GracefulShutdown ==
    /\ [][(~ running /\ mpc = "while") => mpc' # "ping"]_vars
    /\ [][(~ running /\ MonitorSleep) => mpc' = "while"]_vars
    /\ [][(shutdown_requested /\ SignalHandler) => mpc' = "exited"]_vars
    /\ (~ running ~> LoopLeft)

\* one signal has arrived and the loop has ended at its next test
C25_Witness ==
    /\ ~ running
    /\ shutdown_requested
    /\ mpc = "stopped"
    /\ lastCall.op = "__init__"
    /\ sleepLeft = 0

\* C26: an exception in an iteration does not end the loop: the handler
\* reaches the retry wait, and after the wait the loop tests running again
C26_ErrorRetry ==
    /\ [][(mpc = "except" /\ MonitorExcept) =>
            mpc' = "retry_wait" /\ sleepLeft' = RetrySleeps]_vars
    /\ [][(mpc = "retry_wait" /\ MonitorSleep /\ mpc' # mpc) =>
            mpc' = "while"]_vars
    /\ [](mpc # "crashed")

====
